---- MODULE Spec2Model ----
(***************************************************************************)
(* Model of src/src/lib/channel.rs: an unbounded multi-producer,           *)
(* single-consumer channel built from Mutex + Condvar + VecDeque.          *)
(*                                                                         *)
(* Producer threads own Sender handles and run send / clone / drop one     *)
(* statement at a time; the single Receiver thread runs recv (or           *)
(* Iterator::next, which is recv).  Mutex::lock is a step that is enabled  *)
(* only while the mutex is free; Condvar::wait releases the mutex and      *)
(* parks atomically; Condvar::notify_one wakes the parked Receiver if      *)
(* there is one and is otherwise forgotten; a parked thread may also wake  *)
(* spuriously.                                                             *)
(***************************************************************************)
EXTENDS Integers, Sequences, FiniteSets, TLC

\* ---------------- bounds
MaxHandles == 2     \* Sender handles ever created (channel() + clones)
MaxSends == 3       \* send calls over the whole run

Producers == {"p1", "p2"}
Handles == 1..MaxHandles
NoVal == <<>>

\* routing_table.rs, mod test: the root data and the entities.
BOTTOM_FALLBACK == 14

VARIABLES
    quque,          \* BehindMutex.quque
    senders_count,  \* BehindMutex.senders_count
    mutex,          \* Shared.mutex: the thread holding it, or "none"
    swap_buffer,    \* Receiver.swap_buffer
    pc,             \* pc[t]: the statement producer thread t is at
    cur,            \* cur[t]: the Sender handle (self) of t's running call
    i_am_the_last,  \* i_am_the_last[t]: the local of Drop::drop
    hstate,         \* hstate[h]: "unborn", "live" or "dead"
    owner,          \* owner[h]: the thread that holds Sender h
    rpc,            \* the statement the Receiver thread is at
    wokenBy,        \* what ended the Receiver's last Condvar::wait
    nsent,          \* nsent[t]: the number of send calls thread t has made
    pushed,         \* every value pushed, in critical-section order
    received,       \* every value recv returned in Some, in return order
    lastRet,        \* the result of the last recv that returned
    prevRet,        \* the result of the recv that returned before it
    closeNotifies,  \* notify_one calls issued by Drop::drop
    ref_queue,      \* queue of the reference Receiver (one pop per recv)
    ref_out,        \* the reference Receiver's result for the same call
    rt,             \* routing_table.rs: the RoutingTable, node path -> node
    rt_ref,         \* the table the plain register calls of a batch build
    routes,         \* the routes registered so far, route -> entity
    rt_panic,       \* the panic message of the last call, or "none"
    rt_call,        \* the last call on the table: [n, api, entity, route]
    qm_in,          \* parse_url.rs: the arguments of decoded_query_map
    qm_out          \* the result of decoded_query_map(qm_in)

vars == <<quque, senders_count, mutex, swap_buffer, pc, cur, i_am_the_last,
          hstate, owner, rpc, wokenBy, nsent, pushed, received, lastRet,
          prevRet, closeNotifies, ref_queue, ref_out,
          rt, rt_ref, routes, rt_panic, rt_call, qm_in, qm_out>>

chanVars == <<quque, senders_count, mutex, swap_buffer, pc, cur,
              i_am_the_last, hstate, owner, rpc, wokenBy, nsent, pushed,
              received, lastRet, prevRet, closeNotifies, ref_queue, ref_out>>
routeVars == <<rt, rt_ref, routes, rt_panic, rt_call>>
queryVars == <<qm_in, qm_out>>

prodVars == <<pc, cur, i_am_the_last, hstate, owner, nsent>>
recvVars == <<swap_buffer, rpc, received, lastRet, prevRet, ref_out>>

\* ---------------- helpers
Range(s) == {s[i] : i \in 1..Len(s)}

\* The k-th value thread t sends is the pair <<t, k>>: pairwise distinct.
ValueOf(t, k) == <<t, k>>

TotalSends == LET RECURSIVE Sum(_)
                  Sum(S) == IF S = {} THEN 0
                            ELSE LET t == CHOOSE x \in S : TRUE
                                 IN nsent[t] + Sum(S \ {t})
              IN Sum(Producers)

Created == {h \in Handles : hstate[h] # "unborn"}
Cloning == {t \in Producers : pc[t] \in {"c_inc", "c_unlock", "c_ret"}}
FreshHandle == CHOOSE h \in Handles :
                   /\ hstate[h] = "unborn"
                   /\ \A g \in Handles : g < h => hstate[g] # "unborn"

Owns(t, h) == hstate[h] = "live" /\ owner[h] = t

\* The Senders that hold their Arc<Shared>: a Sender gives it up when its
\* drop has run.  Shared, and the queue in it, is freed with its last Arc.
LiveSenders == {h \in Handles : hstate[h] = "live"}

\* BehindMutex::default and channel(): one Sender, one Receiver.
ChanInit ==
    /\ quque = <<>>
    /\ senders_count = 1
    /\ mutex = "none"
    /\ swap_buffer = <<>>
    /\ pc = [t \in Producers |-> "idle"]
    /\ cur = [t \in Producers |-> 0]
    /\ i_am_the_last = [t \in Producers |-> FALSE]
    /\ hstate = [h \in Handles |-> IF h = 1 THEN "live" ELSE "unborn"]
    /\ owner = [h \in Handles |-> "p1"]
    /\ rpc = "idle"
    /\ wokenBy = "none"
    /\ nsent = [t \in Producers |-> 0]
    /\ pushed = <<>>
    /\ received = <<>>
    /\ lastRet = <<"nil", NoVal>>
    /\ prevRet = <<"nil", NoVal>>
    /\ closeNotifies = 0
    /\ ref_queue = <<>>
    /\ ref_out = <<"nil", NoVal>>

\* RoutingTable::new(BOTTOM_FALLBACK): the root node alone.
RouteStart ==
    /\ rt = (<<>> :> [data |-> BOTTOM_FALLBACK, depth |-> 0])
    /\ rt_ref = (<<>> :> [data |-> BOTTOM_FALLBACK, depth |-> 0])
    /\ routes = <<>>
    /\ rt_panic = "none"
    /\ rt_call = [n |-> 0, api |-> "new", entity |-> BOTTOM_FALLBACK,
                  route |-> <<>>]

\* No decoded_query_map call.
QueryStart ==
    /\ qm_in = [decoded_queries |-> <<>>, null_replacement |-> <<>>,
                dup_policy |-> <<"KeepFirst">>]
    /\ qm_out = <<"idle">>

Init == ChanInit /\ RouteStart /\ QueryStart

\* Condvar::notify_one: wakes the Receiver if it is parked in wait.
NotifyOne(by) ==
    /\ rpc' = IF rpc = "r_wait" THEN "r_woken" ELSE rpc
    /\ wokenBy' = IF rpc = "r_wait" THEN by ELSE wokenBy

\* ---------------- Sender::send
\* Variant of SendLock: the lock is taken without waiting for it.
SendLockUnguarded(t, h) ==
    /\ pc[t] = "idle" /\ Owns(t, h)
    /\ TotalSends < MaxSends
    /\ mutex' = t
    /\ pc' = [pc EXCEPT ![t] = "s_push"]
    /\ cur' = [cur EXCEPT ![t] = h]
    /\ nsent' = [nsent EXCEPT ![t] = @ + 1]
    /\ UNCHANGED <<quque, senders_count, i_am_the_last, hstate, owner,
                   wokenBy, pushed, ref_queue, closeNotifies>>
    /\ UNCHANGED recvVars
    /\ UNCHANGED <<routeVars, queryVars>>

SendLock(t, h) ==
    /\ pc[t] = "idle" /\ Owns(t, h)
    /\ TotalSends < MaxSends
    /\ mutex = "none"
    /\ mutex' = t
    /\ pc' = [pc EXCEPT ![t] = "s_push"]
    /\ cur' = [cur EXCEPT ![t] = h]
    /\ nsent' = [nsent EXCEPT ![t] = @ + 1]
    /\ UNCHANGED <<quque, senders_count, i_am_the_last, hstate, owner,
                   wokenBy, pushed, ref_queue, closeNotifies>>
    /\ UNCHANGED recvVars
    /\ UNCHANGED <<routeVars, queryVars>>

\* Variant of SendPush: push_front instead of push_back.
SendPushFront(t) ==
    /\ pc[t] = "s_push"
    /\ quque' = <<ValueOf(t, nsent[t])>> \o quque
    /\ pushed' = Append(pushed, ValueOf(t, nsent[t]))
    /\ ref_queue' = Append(ref_queue, ValueOf(t, nsent[t]))
    /\ pc' = [pc EXCEPT ![t] = "s_unlock"]
    /\ UNCHANGED <<senders_count, mutex, cur, i_am_the_last, hstate, owner,
                   wokenBy, nsent, closeNotifies>>
    /\ UNCHANGED recvVars
    /\ UNCHANGED <<routeVars, queryVars>>

\* Variant of SendPush: send gives up once the Receiver is gone.
SendPushUnlessGone(t) ==
    /\ pc[t] = "s_push"
    /\ rpc # "gone"
    /\ quque' = Append(quque, ValueOf(t, nsent[t]))
    /\ pushed' = Append(pushed, ValueOf(t, nsent[t]))
    /\ ref_queue' = Append(ref_queue, ValueOf(t, nsent[t]))
    /\ pc' = [pc EXCEPT ![t] = "s_unlock"]
    /\ UNCHANGED <<senders_count, mutex, cur, i_am_the_last, hstate, owner,
                   wokenBy, nsent, closeNotifies>>
    /\ UNCHANGED recvVars
    /\ UNCHANGED <<routeVars, queryVars>>

SendPush(t) ==
    /\ pc[t] = "s_push"
    /\ quque' = Append(quque, ValueOf(t, nsent[t]))
    /\ pushed' = Append(pushed, ValueOf(t, nsent[t]))
    /\ ref_queue' = Append(ref_queue, ValueOf(t, nsent[t]))
    /\ pc' = [pc EXCEPT ![t] = "s_unlock"]
    /\ UNCHANGED <<senders_count, mutex, cur, i_am_the_last, hstate, owner,
                   wokenBy, nsent, closeNotifies>>
    /\ UNCHANGED recvVars
    /\ UNCHANGED <<routeVars, queryVars>>

\* Variant of SendUnlock: the guard is still alive at the notify_one.
SendUnlockKeeps(t) ==
    /\ pc[t] = "s_unlock"
    /\ pc' = [pc EXCEPT ![t] = "s_notify"]
    /\ UNCHANGED <<quque, senders_count, mutex, cur, i_am_the_last, hstate,
                   owner, wokenBy, nsent, pushed, ref_queue, closeNotifies>>
    /\ UNCHANGED recvVars
    /\ UNCHANGED <<routeVars, queryVars>>

SendUnlock(t) ==
    /\ pc[t] = "s_unlock"
    /\ mutex' = "none"
    /\ pc' = [pc EXCEPT ![t] = "s_notify"]
    /\ UNCHANGED <<quque, senders_count, cur, i_am_the_last, hstate, owner,
                   wokenBy, nsent, pushed, ref_queue, closeNotifies>>
    /\ UNCHANGED recvVars
    /\ UNCHANGED <<routeVars, queryVars>>

\* Variant of SendNotify: the notify_one call is missing.
SendNotifyNever(t) ==
    /\ pc[t] = "s_notify"
    /\ pc' = [pc EXCEPT ![t] = "idle"]
    /\ cur' = [cur EXCEPT ![t] = 0]
    /\ UNCHANGED <<quque, senders_count, mutex, i_am_the_last, hstate, owner,
                   wokenBy, nsent, pushed, ref_queue, closeNotifies>>
    /\ UNCHANGED recvVars
    /\ UNCHANGED <<routeVars, queryVars>>

SendNotify(t) ==
    /\ pc[t] = "s_notify"
    /\ NotifyOne("send")
    /\ pc' = [pc EXCEPT ![t] = "idle"]
    /\ cur' = [cur EXCEPT ![t] = 0]
    /\ UNCHANGED <<quque, senders_count, mutex, swap_buffer, i_am_the_last,
                   hstate, owner, nsent, pushed, ref_queue, received, lastRet,
                   prevRet, ref_out, closeNotifies>>
    /\ UNCHANGED <<routeVars, queryVars>>

\* ---------------- Sender::clone
\* Variant of CloneLock: clone is reached through a handle that has been
\* destroyed.
CloneLockAnyHandle(t, h) ==
    /\ pc[t] = "idle" /\ owner[h] = t /\ hstate[h] # "unborn"
    /\ Cardinality(Created) + Cardinality(Cloning) < MaxHandles
    /\ mutex = "none"
    /\ mutex' = t
    /\ pc' = [pc EXCEPT ![t] = "c_inc"]
    /\ cur' = [cur EXCEPT ![t] = h]
    /\ UNCHANGED <<quque, senders_count, i_am_the_last, hstate, owner,
                   wokenBy, nsent, pushed, ref_queue, closeNotifies>>
    /\ UNCHANGED recvVars
    /\ UNCHANGED <<routeVars, queryVars>>

\* clone(&self): the calling thread owns a live Sender.
CloneLock(t, h) ==
    /\ pc[t] = "idle" /\ Owns(t, h)
    /\ Cardinality(Created) + Cardinality(Cloning) < MaxHandles
    /\ mutex = "none"
    /\ mutex' = t
    /\ pc' = [pc EXCEPT ![t] = "c_inc"]
    /\ cur' = [cur EXCEPT ![t] = h]
    /\ UNCHANGED <<quque, senders_count, i_am_the_last, hstate, owner,
                   wokenBy, nsent, pushed, ref_queue, closeNotifies>>
    /\ UNCHANGED recvVars
    /\ UNCHANGED <<routeVars, queryVars>>

\* Variant of CloneInc: the increment is missing.
CloneIncForgotten(t) ==
    /\ pc[t] = "c_inc"
    /\ pc' = [pc EXCEPT ![t] = "c_unlock"]
    /\ UNCHANGED <<quque, senders_count, mutex, cur, i_am_the_last, hstate,
                   owner, wokenBy, nsent, pushed, ref_queue, closeNotifies>>
    /\ UNCHANGED recvVars
    /\ UNCHANGED <<routeVars, queryVars>>

CloneInc(t) ==
    /\ pc[t] = "c_inc"
    /\ senders_count' = senders_count + 1
    /\ pc' = [pc EXCEPT ![t] = "c_unlock"]
    /\ UNCHANGED <<quque, mutex, cur, i_am_the_last, hstate, owner, wokenBy,
                   nsent, pushed, ref_queue, closeNotifies>>
    /\ UNCHANGED recvVars
    /\ UNCHANGED <<routeVars, queryVars>>

CloneUnlock(t) ==
    /\ pc[t] = "c_unlock"
    /\ mutex' = "none"
    /\ pc' = [pc EXCEPT ![t] = "c_ret"]
    /\ UNCHANGED <<quque, senders_count, cur, i_am_the_last, hstate, owner,
                   wokenBy, nsent, pushed, ref_queue, closeNotifies>>
    /\ UNCHANGED recvVars
    /\ UNCHANGED <<routeVars, queryVars>>

\* The new Sender is constructed and handed to thread o (kept, or moved
\* into another producer thread).
CloneRet(t, o) ==
    /\ pc[t] = "c_ret"
    /\ hstate' = [hstate EXCEPT ![FreshHandle] = "live"]
    /\ owner' = [owner EXCEPT ![FreshHandle] = o]
    /\ pc' = [pc EXCEPT ![t] = "idle"]
    /\ cur' = [cur EXCEPT ![t] = 0]
    /\ UNCHANGED <<quque, senders_count, mutex, i_am_the_last, wokenBy, nsent,
                   pushed, ref_queue, closeNotifies>>
    /\ UNCHANGED recvVars
    /\ UNCHANGED <<routeVars, queryVars>>

\* ---------------- Drop for Sender
DropLock(t, h) ==
    /\ pc[t] = "idle" /\ Owns(t, h)
    /\ mutex = "none"
    /\ mutex' = t
    /\ pc' = [pc EXCEPT ![t] = "d_dec"]
    /\ cur' = [cur EXCEPT ![t] = h]
    /\ UNCHANGED <<quque, senders_count, i_am_the_last, hstate, owner,
                   wokenBy, nsent, pushed, ref_queue, closeNotifies>>
    /\ UNCHANGED recvVars
    /\ UNCHANGED <<routeVars, queryVars>>

\* senders_count is a usize: a decrement at 0 is an arithmetic overflow
\* (panic or wrap-around); the model shows it as the value -1.
DropDec(t) ==
    /\ pc[t] = "d_dec"
    /\ senders_count' = senders_count - 1
    /\ pc' = [pc EXCEPT ![t] = "d_check"]
    /\ UNCHANGED <<quque, mutex, cur, i_am_the_last, hstate, owner, wokenBy,
                   nsent, pushed, ref_queue, closeNotifies>>
    /\ UNCHANGED recvVars
    /\ UNCHANGED <<routeVars, queryVars>>

\* Variant of DropCheck: off by one (senders_count <= 1).
DropCheckOffByOne(t) ==
    /\ pc[t] = "d_check"
    /\ i_am_the_last' = [i_am_the_last EXCEPT ![t] = (senders_count <= 1)]
    /\ pc' = [pc EXCEPT ![t] = "d_unlock"]
    /\ UNCHANGED <<quque, senders_count, mutex, cur, hstate, owner, wokenBy,
                   nsent, pushed, ref_queue, closeNotifies>>
    /\ UNCHANGED recvVars
    /\ UNCHANGED <<routeVars, queryVars>>

DropCheck(t) ==
    /\ pc[t] = "d_check"
    /\ i_am_the_last' = [i_am_the_last EXCEPT ![t] = (senders_count = 0)]
    /\ pc' = [pc EXCEPT ![t] = "d_unlock"]
    /\ UNCHANGED <<quque, senders_count, mutex, cur, hstate, owner, wokenBy,
                   nsent, pushed, ref_queue, closeNotifies>>
    /\ UNCHANGED recvVars
    /\ UNCHANGED <<routeVars, queryVars>>

DropUnlock(t) ==
    /\ pc[t] = "d_unlock"
    /\ mutex' = "none"
    /\ pc' = [pc EXCEPT ![t] = "d_notify"]
    /\ UNCHANGED <<quque, senders_count, cur, i_am_the_last, hstate, owner,
                   wokenBy, nsent, pushed, ref_queue, closeNotifies>>
    /\ UNCHANGED recvVars
    /\ UNCHANGED <<routeVars, queryVars>>

\* Variant of DropNotify: the last Sender does not notify.
DropNotifyNever(t) ==
    /\ pc[t] = "d_notify"
    /\ hstate' = [hstate EXCEPT ![cur[t]] = "dead"]
    /\ i_am_the_last' = [i_am_the_last EXCEPT ![t] = FALSE]
    /\ pc' = [pc EXCEPT ![t] = "idle"]
    /\ cur' = [cur EXCEPT ![t] = 0]
    /\ quque' = IF rpc = "gone" /\ LiveSenders = {cur[t]} THEN <<>>
                ELSE quque
    /\ ref_queue' = IF rpc = "gone" /\ LiveSenders = {cur[t]} THEN <<>>
                    ELSE ref_queue
    /\ UNCHANGED <<senders_count, mutex, owner, wokenBy, nsent, pushed,
                   closeNotifies>>
    /\ UNCHANGED recvVars
    /\ UNCHANGED <<routeVars, queryVars>>

\* if i_am_the_last { notify_one }; then the Sender's Arc<Shared> is
\* dropped: with the Receiver gone and no other Sender, Shared is freed
\* and the queued values with it.
DropNotify(t) ==
    /\ pc[t] = "d_notify"
    /\ IF i_am_the_last[t]
         THEN NotifyOne("drop") /\ closeNotifies' = closeNotifies + 1
         ELSE UNCHANGED <<rpc, wokenBy, closeNotifies>>
    /\ hstate' = [hstate EXCEPT ![cur[t]] = "dead"]
    /\ i_am_the_last' = [i_am_the_last EXCEPT ![t] = FALSE]
    /\ pc' = [pc EXCEPT ![t] = "idle"]
    /\ cur' = [cur EXCEPT ![t] = 0]
    /\ quque' = IF rpc = "gone" /\ LiveSenders = {cur[t]} THEN <<>>
                ELSE quque
    /\ ref_queue' = IF rpc = "gone" /\ LiveSenders = {cur[t]} THEN <<>>
                    ELSE ref_queue
    /\ UNCHANGED <<senders_count, mutex, swap_buffer, owner, nsent,
                   pushed, received, lastRet, prevRet, ref_out>>
    /\ UNCHANGED <<routeVars, queryVars>>

\* ---------------- Receiver::recv
\* The reference Receiver of the swap-buffer comparison: no swap_buffer,
\* one pop_front of the shared queue per recv.  Its result on queue q with
\* n live producers ("Block": it would wait).
RefRecv(q, n) ==
    IF q # <<>> THEN <<"Some", Head(q)>>
    ELSE IF n = 0 THEN <<"None", NoVal>>
    ELSE <<"Block", NoVal>>

\* The function returns: its result is recorded, and the reference
\* Receiver serves the same call.
Return(tag, v) ==
    /\ rpc' = "idle"
    /\ lastRet' = <<tag, v>>
    /\ prevRet' = lastRet
    /\ received' = IF tag = "Some" THEN Append(received, v) ELSE received
    /\ ref_out' = RefRecv(ref_queue, senders_count)
    /\ ref_queue' = IF ref_queue # <<>> THEN Tail(ref_queue) ELSE ref_queue

\* rx.recv() is called, directly or by Iterator::next (which is
\* self.recv() and nothing else).
RecvCall ==
    /\ rpc = "idle"
    /\ rpc' = "r_start"
    /\ UNCHANGED <<quque, senders_count, mutex, swap_buffer, wokenBy, pushed,
                   ref_queue, received, lastRet, prevRet, ref_out,
                   closeNotifies>>
    /\ UNCHANGED prodVars
    /\ UNCHANGED <<routeVars, queryVars>>

\* Variant of RecvLocal: pop_back instead of pop_front.
RecvLocalBack ==
    /\ rpc = "r_start"
    /\ swap_buffer # <<>>
    /\ swap_buffer' = SubSeq(swap_buffer, 1, Len(swap_buffer) - 1)
    /\ Return("Some", swap_buffer[Len(swap_buffer)])
    /\ UNCHANGED <<quque, senders_count, mutex, wokenBy, pushed,
                   closeNotifies>>
    /\ UNCHANGED prodVars
    /\ UNCHANGED <<routeVars, queryVars>>

\* Variant of RecvLocal: the mutex is taken for the local pop as well.
RecvLocalLocked ==
    /\ rpc = "r_start"
    /\ swap_buffer # <<>>
    /\ mutex = "none"
    /\ swap_buffer' = Tail(swap_buffer)
    /\ Return("Some", Head(swap_buffer))
    /\ UNCHANGED <<quque, senders_count, mutex, wokenBy, pushed,
                   closeNotifies>>
    /\ UNCHANGED prodVars
    /\ UNCHANGED <<routeVars, queryVars>>

RecvLocal ==
    /\ rpc = "r_start"
    /\ swap_buffer # <<>>
    /\ swap_buffer' = Tail(swap_buffer)
    /\ Return("Some", Head(swap_buffer))
    /\ UNCHANGED <<quque, senders_count, mutex, wokenBy, pushed,
                   closeNotifies>>
    /\ UNCHANGED prodVars
    /\ UNCHANGED <<routeVars, queryVars>>

\* Variant of RecvLock: the early return on a non-empty swap_buffer is
\* not taken every time.
RecvLockAlways ==
    /\ rpc = "r_start"
    /\ mutex = "none"
    /\ mutex' = "rx"
    /\ rpc' = "r_loop"
    /\ UNCHANGED <<quque, senders_count, swap_buffer, wokenBy, pushed,
                   ref_queue, received, lastRet, prevRet, ref_out,
                   closeNotifies>>
    /\ UNCHANGED prodVars
    /\ UNCHANGED <<routeVars, queryVars>>

RecvLock ==
    /\ rpc = "r_start"
    /\ swap_buffer = <<>>
    /\ mutex = "none"
    /\ mutex' = "rx"
    /\ rpc' = "r_loop"
    /\ UNCHANGED <<quque, senders_count, swap_buffer, wokenBy, pushed,
                   ref_queue, received, lastRet, prevRet, ref_out,
                   closeNotifies>>
    /\ UNCHANGED prodVars
    /\ UNCHANGED <<routeVars, queryVars>>

\* Variant of RecvPop: the rest is copied into swap_buffer and also left
\* in the shared queue.
RecvPopNoClear ==
    /\ rpc = "r_loop"
    /\ quque # <<>>
    /\ IF Tail(quque) # <<>>
         THEN swap_buffer' = Tail(quque) /\ quque' = Tail(quque)
         ELSE quque' = Tail(quque) /\ UNCHANGED swap_buffer
    /\ mutex' = "none"
    /\ Return("Some", Head(quque))
    /\ UNCHANGED <<senders_count, wokenBy, pushed, closeNotifies>>
    /\ UNCHANGED prodVars
    /\ UNCHANGED <<routeVars, queryVars>>

\* Some(t): pop the front, swap the rest into swap_buffer, return (the
\* guard is dropped on return).
RecvPop ==
    /\ rpc = "r_loop"
    /\ quque # <<>>
    /\ IF Tail(quque) # <<>>
         THEN swap_buffer' = Tail(quque) /\ quque' = swap_buffer
         ELSE quque' = Tail(quque) /\ UNCHANGED swap_buffer
    /\ mutex' = "none"
    /\ Return("Some", Head(quque))
    /\ UNCHANGED <<senders_count, wokenBy, pushed, closeNotifies>>
    /\ UNCHANGED prodVars
    /\ UNCHANGED <<routeVars, queryVars>>

\* Variant of RecvClosed: senders_count is tested before the queue.
RecvClosedEarly ==
    /\ rpc = "r_loop"
    /\ senders_count = 0
    /\ mutex' = "none"
    /\ Return("None", NoVal)
    /\ UNCHANGED <<quque, senders_count, swap_buffer, wokenBy, pushed,
                   closeNotifies>>
    /\ UNCHANGED prodVars
    /\ UNCHANGED <<routeVars, queryVars>>

\* None if behind_mutex.senders_count == 0 => return None
RecvClosed ==
    /\ rpc = "r_loop"
    /\ quque = <<>>
    /\ senders_count = 0
    /\ mutex' = "none"
    /\ Return("None", NoVal)
    /\ UNCHANGED <<quque, senders_count, swap_buffer, wokenBy, pushed,
                   closeNotifies>>
    /\ UNCHANGED prodVars
    /\ UNCHANGED <<routeVars, queryVars>>

\* Variant of RecvWait: waits without looking at the queue.
RecvWaitUnchecked ==
    /\ rpc = "r_loop"
    /\ senders_count # 0
    /\ mutex' = "none"
    /\ rpc' = "r_wait"
    /\ wokenBy' = "none"
    /\ UNCHANGED <<quque, senders_count, swap_buffer, pushed, ref_queue,
                   received, lastRet, prevRet, ref_out, closeNotifies>>
    /\ UNCHANGED prodVars
    /\ UNCHANGED <<routeVars, queryVars>>

\* Variant of RecvWait: waits on an empty queue whatever senders_count is.
RecvWaitClosed ==
    /\ rpc = "r_loop"
    /\ quque = <<>>
    /\ mutex' = "none"
    /\ rpc' = "r_wait"
    /\ wokenBy' = "none"
    /\ UNCHANGED <<quque, senders_count, swap_buffer, pushed, ref_queue,
                   received, lastRet, prevRet, ref_out, closeNotifies>>
    /\ UNCHANGED prodVars
    /\ UNCHANGED <<routeVars, queryVars>>

\* None => avail.wait(behind_mutex): unlock and park, atomically.
RecvWait ==
    /\ rpc = "r_loop"
    /\ quque = <<>>
    /\ senders_count # 0
    /\ mutex' = "none"
    /\ rpc' = "r_wait"
    /\ wokenBy' = "none"
    /\ UNCHANGED <<quque, senders_count, swap_buffer, pushed, ref_queue,
                   received, lastRet, prevRet, ref_out, closeNotifies>>
    /\ UNCHANGED prodVars
    /\ UNCHANGED <<routeVars, queryVars>>

\* Condvar::wait may return without any notify.
SpuriousWake ==
    /\ rpc = "r_wait"
    /\ rpc' = "r_woken"
    /\ wokenBy' = "spurious"
    /\ UNCHANGED <<quque, senders_count, mutex, swap_buffer, pushed,
                   ref_queue, received, lastRet, prevRet, ref_out,
                   closeNotifies>>
    /\ UNCHANGED prodVars
    /\ UNCHANGED <<routeVars, queryVars>>

\* Variant of RecvReacquire: an `if` in place of the loop, the wake-up is
\* taken to mean that the channel is closed when the queue is empty.
RecvReacquireTrusting ==
    /\ rpc = "r_woken"
    /\ mutex = "none"
    /\ IF quque = <<>>
         THEN /\ Return("None", NoVal)
              /\ UNCHANGED mutex
         ELSE /\ mutex' = "rx"
              /\ rpc' = "r_loop"
              /\ UNCHANGED <<ref_queue, received, lastRet, prevRet, ref_out>>
    /\ UNCHANGED <<quque, senders_count, swap_buffer, wokenBy, pushed,
                   closeNotifies>>
    /\ UNCHANGED prodVars
    /\ UNCHANGED <<routeVars, queryVars>>

\* wait re-acquires the mutex before it returns the guard.
RecvReacquire ==
    /\ rpc = "r_woken"
    /\ mutex = "none"
    /\ mutex' = "rx"
    /\ rpc' = "r_loop"
    /\ UNCHANGED <<quque, senders_count, swap_buffer, wokenBy, pushed,
                   ref_queue, received, lastRet, prevRet, ref_out,
                   closeNotifies>>
    /\ UNCHANGED prodVars
    /\ UNCHANGED <<routeVars, queryVars>>

\* The Receiver goes out of scope (it has no Drop impl): its fields are
\* dropped.  swap_buffer is destroyed with the values in it, and when no
\* Sender is left the Receiver's Arc is the last one, so Shared is freed
\* and the queued values with it.
RecvDrop ==
    /\ rpc = "idle"
    /\ rpc' = "gone"
    /\ swap_buffer' = <<>>
    /\ quque' = IF LiveSenders = {} THEN <<>> ELSE quque
    /\ ref_queue' = IF LiveSenders = {} THEN <<>> ELSE ref_queue
    /\ UNCHANGED <<senders_count, mutex, wokenBy, pushed,
                   received, lastRet, prevRet, ref_out,
                   closeNotifies>>
    /\ UNCHANGED prodVars
    /\ UNCHANGED <<routeVars, queryVars>>

\* ---------------- specification
ProducerStep(t) ==
    \/ SendPush(t) \/ SendUnlock(t) \/ SendNotify(t)
    \/ CloneInc(t) \/ CloneUnlock(t) \/ \E o \in Producers : CloneRet(t, o)
    \/ DropDec(t) \/ DropCheck(t) \/ DropUnlock(t) \/ DropNotify(t)

ProducerCall(t) ==
    \E h \in Handles : SendLock(t, h) \/ CloneLock(t, h) \/ DropLock(t, h)

ReceiverStep ==
    \/ RecvLocal \/ RecvLock \/ RecvPop \/ RecvClosed \/ RecvWait
    \/ RecvReacquire

Next ==
    \/ \E t \in Producers : ProducerCall(t)
    \/ \E t \in Producers : ProducerStep(t)
    \/ RecvCall
    \/ ReceiverStep
    \/ SpuriousWake
    \/ RecvDrop

Spec == Init /\ [][Next]_vars

\* Threads that are inside a call keep running; lock acquisition is
\* eventually granted.  Starting a call, dropping the Receiver and
\* spurious wake-ups are never forced.
Fairness ==
    /\ \A t \in Producers : WF_vars(ProducerStep(t))
    /\ WF_vars(ReceiverStep)

LiveSpec == Init /\ [][Next]_vars /\ Fairness


\* ---------------- routing_table.rs
MaxRegs == 2        \* register / reg_more / reg_parallel calls in a run
MaxRoute == 3       \* longest route passed to register

Keys == {"a", "b"}
DoubleReg == "Double registration error"
EmptyReg == "Double registration error (empty route registration)"

\* enum OneOrMore and enum SerialOrParallel.
One(str) == <<"One", str>>
More(str_arr) == <<"More", str_arr>>
Serial(str_arr) == <<"Serial", str_arr>>
Parallel(str_arr) == <<"Parallel", str_arr>>

\* RoutingTable::new_core: a node with an empty map.
NewCore(data, depth) == [data |-> data, depth |-> depth]

\* The table is the function from the path of each node to the node; the
\* map of the node at path self holds key k iff Append(self, k) is a node.
Done(T) == [t |-> T, panic |-> "none"]
Panic(T, msg) == [t |-> T, panic |-> msg]

RECURSIVE RegisterOneCore(_, _, _, _, _)
RECURSIVE RegisterMoreCore(_, _, _, _, _)
RECURSIVE RegisterEach(_, _, _, _, _)

ImplicitLayerBottom(T, self) ==
    NewCore(BOTTOM_FALLBACK, T[self].depth + 1)

\* The node register_one_core creates for a missing intermediate key: it
\* carries the data of the node it hangs under.
ImplicitLayer(T, self) ==
    NewCore(T[self].data, T[self].depth + 1)

RegisterOneCoreUpgrade(T, self, entity, next_rt, rest_rt) ==
    LET child == Append(self, next_rt) IN
    IF Len(rest_rt) = 0
      THEN IF child \in DOMAIN T
             THEN IF T[child].data = T[self].data
                    THEN Done([T EXCEPT ![child].data = entity])
                    ELSE Panic(T, DoubleReg)
             ELSE Done(T @@ (child :> NewCore(entity, T[self].depth + 1)))
      ELSE IF child \in DOMAIN T
             THEN RegisterMoreCore(T, child, entity, rest_rt[1],
                                   Tail(rest_rt))
             ELSE LET implicit_layer == T @@ (child :> ImplicitLayer(T, self))
                      r == RegisterMoreCore(implicit_layer, child, entity,
                                            rest_rt[1], Tail(rest_rt))
                  IN IF r.panic # "none" THEN Panic(T, r.panic) ELSE r

RegisterOneCoreOverwrite(T, self, entity, next_rt, rest_rt) ==
    LET child == Append(self, next_rt) IN
    IF Len(rest_rt) = 0
      THEN Done((child :> NewCore(entity, T[self].depth + 1)) @@ T)
      ELSE IF child \in DOMAIN T
             THEN RegisterMoreCore(T, child, entity, rest_rt[1],
                                   Tail(rest_rt))
             ELSE LET implicit_layer == T @@ (child :> ImplicitLayer(T, self))
                      r == RegisterMoreCore(implicit_layer, child, entity,
                                            rest_rt[1], Tail(rest_rt))
                  IN IF r.panic # "none" THEN Panic(T, r.panic) ELSE r

\* register_one_core on the node at path self.
RegisterOneCore(T, self, entity, next_rt, rest_rt) ==
    LET child == Append(self, next_rt) IN
    IF Len(rest_rt) = 0
      THEN IF child \in DOMAIN T
             THEN Panic(T, DoubleReg)
             ELSE Done(T @@ (child :> NewCore(entity, T[self].depth + 1)))
      ELSE IF child \in DOMAIN T
             THEN RegisterMoreCore(T, child, entity, rest_rt[1],
                                   Tail(rest_rt))
             ELSE LET implicit_layer == T @@ (child :> ImplicitLayer(T, self))
                      r == RegisterMoreCore(implicit_layer, child, entity,
                                            rest_rt[1], Tail(rest_rt))
                  IN IF r.panic # "none" THEN Panic(T, r.panic) ELSE r

\* The for loop of register_more_core over the alternatives more_rt.
RegisterEach(T, self, entity, more_rt, rest_rt) ==
    IF more_rt = <<>> THEN Done(T)
    ELSE LET r == RegisterOneCore(T, self, entity, Head(more_rt), rest_rt)
         IN IF r.panic # "none" THEN r
            ELSE RegisterEach(r.t, self, entity, Tail(more_rt), rest_rt)

RegisterMoreCore(T, self, entity, next_rt, rest_rt) ==
    IF next_rt[1] = "One"
      THEN RegisterOneCore(T, self, entity, next_rt[2], rest_rt)
      ELSE RegisterEach(T, self, entity, next_rt[2], rest_rt)

\* RoutingTable::register
RegisterOp(T, entity, route) ==
    IF Len(route) > 0
      THEN RegisterOneCore(T, <<>>, entity, route[1],
                           [i \in 1..(Len(route) - 1) |-> One(route[i + 1])])
      ELSE Panic(T, EmptyReg)

\* RoutingTable::reg_more
RegMoreOp(T, entity, route) ==
    IF Len(route) > 0
      THEN RegisterMoreCore(T, <<>>, entity, route[1], Tail(route))
      ELSE Panic(T, EmptyReg)

\* The loop of reg_parallel that builds one_or_more_arr.
RECURSIVE OneOrMoreArr(_)
OneOrMoreArr(route) ==
    IF route = <<>> THEN <<>>
    ELSE LET item == Head(route) IN
         (IF item[1] = "Parallel"
            THEN <<More(item[2])>>
            ELSE [i \in 1..Len(item[2]) |-> One(item[2][i])])
         \o OneOrMoreArr(Tail(route))

\* RoutingTable::reg_parallel
RegParallelOp(T, entity, route) == RegMoreOp(T, entity, OneOrMoreArr(route))

\* RoutingTable::lookup_core from the node at path self; keys.get(start)
\* is keys[start + 1].
RECURSIVE LookupCore(_, _, _, _)
LookupCore(T, self, keys, start) ==
    IF /\ start < Len(keys)
       /\ Append(self, keys[start + 1]) \in DOMAIN T
      THEN LookupCore(T, Append(self, keys[start + 1]), keys, start + 1)
      ELSE <<"Some", [val |-> T[self].data, depth |-> T[self].depth,
                      keys_used |-> start, keep_going |-> self]>>

\* RoutingTable::lookup
Lookup(T, keys) == LookupCore(T, <<>>, keys, 0)

\* The routes a batch route stands for, in the order the loops visit them.
RECURSIVE Product(_)
Product(route) ==
    IF route = <<>> THEN << <<>> >>
    ELSE LET alts == IF Head(route)[1] = "One" THEN <<Head(route)[2]>>
                     ELSE Head(route)[2]
             rest == Product(Tail(route))
             RECURSIVE Cat(_)
             Cat(i) == IF i > Len(alts) THEN <<>>
                       ELSE [j \in 1..Len(rest) |-> <<alts[i]>> \o rest[j]]
                            \o Cat(i + 1)
         IN Cat(1)

\* register called once for each route of rs, in order, until one panics.
RECURSIVE RegisterAll(_, _, _)
RegisterAll(T, entity, rs) ==
    IF rs = <<>> THEN Done(T)
    ELSE LET r == RegisterOp(T, entity, Head(rs))
         IN IF r.panic # "none" THEN r
            ELSE RegisterAll(r.t, entity, Tail(rs))

\* The routes a successful call has registered.
Registered(rs, entity) ==
    [r \in Range(rs) \cup DOMAIN routes |->
        IF r \in DOMAIN routes THEN routes[r] ELSE entity]

SeqsUpTo(S, n) == UNION {[1..k -> S] : k \in 0..n}

\* The arguments of the calls.
PlainRoutes == SeqsUpTo(Keys, MaxRoute)
MaxBatch == 2       \* longest route passed to reg_more / reg_parallel
MoreRoutes ==
    SeqsUpTo({One("a"), More(<<>>), More(<<"a", "b">>)}, MaxBatch)
ParallelRoutes ==
    SeqsUpTo({Serial(<<>>), Serial(<<"a", "b">>), Parallel(<<"a", "b">>)},
             MaxBatch)

\* The entity of the n-th call: as in the tests, every call registers an
\* entity of its own (15, 16, 17, ...).
Entity(n) == BOTTOM_FALLBACK + n

\* What a call leaves: its result replaces the table, and a panic ends the
\* run.  rt_ref is what the plain register calls for the same routes give.
Outcome(api, entity, route, r, plain) ==
    /\ rt_call' = [n |-> rt_call.n + 1, api |-> api, entity |-> entity,
                   route |-> route]
    /\ rt' = r.t
    /\ rt_panic' = r.panic
    /\ rt_ref' = RegisterAll(rt, entity, plain).t
    /\ routes' = IF r.panic = "none" THEN Registered(plain, entity)
                 ELSE routes
    /\ UNCHANGED <<chanVars, queryVars>>

Register(entity, route) ==
    /\ rt_panic = "none"
    /\ rt_call.n < MaxRegs
    /\ Outcome("register", entity, route, RegisterOp(rt, entity, route),
               <<route>>)

RegMore(entity, route) ==
    /\ rt_panic = "none"
    /\ rt_call.n < MaxRegs
    /\ Outcome("reg_more", entity, route, RegMoreOp(rt, entity, route),
               Product(route))

RegParallel(entity, route) ==
    /\ rt_panic = "none"
    /\ rt_call.n < MaxRegs
    /\ Outcome("reg_parallel", entity, route,
               RegParallelOp(rt, entity, route),
               Product(OneOrMoreArr(route)))

RouteNext ==
    \/ \E r \in PlainRoutes : Register(Entity(rt_call.n + 1), r)
    \/ \E r \in MoreRoutes : RegMore(Entity(rt_call.n + 1), r)
    \/ \E r \in ParallelRoutes : RegParallel(Entity(rt_call.n + 1), r)

RouteSpec == Init /\ [][RouteNext]_vars



\* ---------------- parse_url.rs
MaxQueries == 3     \* entries of decoded_queries

\* A string is the sequence of its characters; a key is opaque.
QueryKeys == {"id", "x"}
Some(str) == <<"Some", str>>
None == <<"None">>
QueryValues == {None, Some(<<>>), Some(<<"1">>), Some(<<"2">>)}
NullReplacements == {<<>>, <<"n">>}

\* enum DuplicateParamPolicy
ResultErr == <<"ResultErr">>
KeepFirst == <<"KeepFirst">>
KeepLast == <<"KeepLast">>
ConcatWithDelim(delim) == <<"ConcatWithDelim", delim>>
Policies ==
    {ResultErr, KeepFirst, KeepLast,
     ConcatWithDelim(<<>>), ConcatWithDelim(<<" ">>)}

\* fn concat
Concat(str1, str2, str3) == str1 \o str2 \o str3

\* v.unwrap_or(null_replacement)
UnwrapOr(v, null_replacement) ==
    IF v[1] = "Some" THEN v[2] ELSE null_replacement

\* HashMap::insert: the new value replaces the old one.
Insert(hashmap, k, str) ==
    [x \in DOMAIN hashmap \cup {k} |-> IF x = k THEN str ELSE hashmap[x]]

OnDuplicateKeepsFirst(hashmap, k, v, null_replacement, dup_policy) ==
    IF dup_policy[1] = "ResultErr" THEN <<"Err", k>>
    ELSE IF dup_policy[1] \in {"KeepFirst", "KeepLast"}
      THEN <<"Ok", hashmap>>
    ELSE <<"Ok", Insert(hashmap, k,
                        Concat(hashmap[k], dup_policy[2],
                               UnwrapOr(v, null_replacement)))>>

\* The match on dup_policy for a key the map already holds.
OnDuplicate(hashmap, k, v, null_replacement, dup_policy) ==
    IF dup_policy[1] = "ResultErr" THEN <<"Err", k>>
    ELSE IF dup_policy[1] = "KeepFirst" THEN <<"Ok", hashmap>>
    ELSE IF dup_policy[1] = "KeepLast"
      THEN <<"Ok", Insert(hashmap, k, UnwrapOr(v, null_replacement))>>
    ELSE <<"Ok", Insert(hashmap, k,
                        Concat(hashmap[k], dup_policy[2],
                               UnwrapOr(v, null_replacement)))>>

\* The for loop of decoded_query_map from entry i on.
RECURSIVE QueryLoop(_, _, _, _, _)
QueryLoop(decoded_queries, i, hashmap, null_replacement, dup_policy) ==
    IF i > Len(decoded_queries) THEN <<"Ok", hashmap>>
    ELSE LET k == decoded_queries[i][1]
             v == decoded_queries[i][2]
             step == IF k \in DOMAIN hashmap
                       THEN OnDuplicate(hashmap, k, v, null_replacement,
                                        dup_policy)
                       ELSE <<"Ok", Insert(hashmap, k,
                                           UnwrapOr(v, null_replacement))>>
         IN IF step[1] = "Err" THEN step
            ELSE QueryLoop(decoded_queries, i + 1, step[2],
                           null_replacement, dup_policy)

\* ParsedUrl::decoded_query_map
DecodedQueryMapOp(decoded_queries, null_replacement, dup_policy) ==
    QueryLoop(decoded_queries, 1, <<>>, null_replacement, dup_policy)

\* A ParsedUrl with its decoded_queries, and the arguments of the call.
QueryInit ==
    /\ ChanInit
    /\ RouteStart
    /\ qm_in \in [decoded_queries :
                      SeqsUpTo(QueryKeys \X QueryValues, MaxQueries),
                  null_replacement : NullReplacements,
                  dup_policy : Policies]
    /\ qm_out = <<"idle">>

DecodedQueryMap ==
    /\ qm_out[1] = "idle"
    /\ qm_out' = DecodedQueryMapOp(qm_in.decoded_queries,
                                   qm_in.null_replacement, qm_in.dup_policy)
    /\ UNCHANGED <<qm_in, chanVars, routeVars>>

QueryNext == DecodedQueryMap

QuerySpec == QueryInit /\ [][QueryNext]_vars

\* ---------------- routing table properties

\* The key sequences looked up: over the registered keys and a key no
\* route uses, one segment longer than the longest route.
LookupKeys == SeqsUpTo(Keys \cup {"z"}, MaxRoute + 1)

RegisteredPrefixes(keys) ==
    {SubSeq(keys, 1, n) : n \in 0..Len(keys)} \cap DOMAIN routes

LongestPrefixEntity(keys) ==
    LET P == RegisteredPrefixes(keys) IN
    IF P = {} THEN BOTTOM_FALLBACK
    ELSE routes[CHOOSE p \in P : \A q \in P : Len(q) <= Len(p)]

\* C14: on a table built by successful registrations, lookup(keys) always
\* returns Some, and its val is the entity of the longest registered route
\* that is a prefix of keys, or the root's fallback data when no registered
\* route is a prefix of keys.
C14_LongestPrefixLookup ==
    rt_panic = "none" =>
        \A keys \in LookupKeys :
            LET res == Lookup(rt, keys) IN
            /\ res[1] = "Some"
            /\ res[2].val = LongestPrefixEntity(keys)

\* A short route, then a longer one through an unregistered level: that
\* level and a segment that does not exist fall back to the short route's
\* entity, a key under no route falls back to the root.
C14_Witness ==
    /\ rt_panic = "none"
    /\ rt_call.api = "register"
    /\ DOMAIN routes = {<<"a">>, <<"a", "b", "a">>}
    /\ routes[<<"a">>] = 15 /\ routes[<<"a", "b", "a">>] = 16
    /\ Lookup(rt, <<"a", "b">>)[2].val = 15
    /\ Lookup(rt, <<"a", "b">>)[2].keys_used = 2
    /\ Lookup(rt, <<"a", "z">>)[2].val = 15
    /\ Lookup(rt, <<"a", "b", "a", "z">>)[2].val = 16
    /\ Lookup(rt, <<"b", "a">>)[2].val = BOTTOM_FALLBACK

\* The routes a call asks to register.
CallRoutes(c) ==
    IF c.api = "register" THEN <<c.route>>
    ELSE IF c.api = "reg_more" THEN Product(c.route)
    ELSE Product(OneOrMoreArr(c.route))

\* C15: a register, reg_more or reg_parallel call that names a route
\* already registered panics with the double registration error, and a
\* call with an empty route panics.
C15_DoubleAndEmptyPanic ==
    [][rt_call'.n # rt_call.n =>
          LET rs == Range(CallRoutes(rt_call')) IN
          /\ rs \cap DOMAIN routes # {} => rt_panic' = DoubleReg
          /\ <<>> \in rs => rt_panic' = EmptyReg]_vars

\* A batch call panicked on a route an earlier call had registered.
C15_Witness ==
    /\ rt_panic = DoubleReg
    /\ rt_call.api = "reg_parallel"
    /\ rt_call.n = 2
    /\ Len(CallRoutes(rt_call)) = 2
    /\ Range(CallRoutes(rt_call)) \cap DOMAIN routes # {}
    /\ ~(Range(CallRoutes(rt_call)) \subseteq DOMAIN routes)

\* C16: a successful reg_more or reg_parallel call leaves the table that
\* register, called once for each route of the cartesian product of the
\* alternatives, leaves: every key sequence has the same lookup result in
\* both.
C16_BatchIsProductOfRegisters ==
    (rt_panic = "none" /\ rt_call.api \in {"reg_more", "reg_parallel"}) =>
        \A keys \in LookupKeys : Lookup(rt, keys) = Lookup(rt_ref, keys)


\* ---------------- query map properties

\* The values of key k in the entries, in order, a missing value replaced
\* by the null replacement.
RECURSIVE ValuesOf(_, _, _)
ValuesOf(entries, k, null) ==
    IF entries = <<>> THEN <<>>
    ELSE (IF Head(entries)[1] = k
            THEN << IF Head(entries)[2] = None THEN null
                    ELSE Head(entries)[2][2] >>
            ELSE <<>>)
         \o ValuesOf(Tail(entries), k, null)

RECURSIVE Join(_, _)
Join(strs, d) ==
    IF Len(strs) = 1 THEN strs[1]
    ELSE strs[1] \o d \o Join(Tail(strs), d)

KeysOf(entries) == {entries[i][1] : i \in 1..Len(entries)}

\* C17: decoded_query_map maps a key that occurs once to its value, or to
\* null_replacement when it has none; for a key that occurs several times,
\* KeepFirst gives the first occurrence's value, KeepLast the last one's,
\* ConcatWithDelim(d) all of them joined in order with d (missing values
\* replaced by null_replacement), and ResultErr gives an error instead of a
\* map.
C17_QueryMapPolicies ==
    qm_out[1] # "idle" =>
        LET entries == qm_in.decoded_queries
            null == qm_in.null_replacement
            policy == qm_in.dup_policy
            repeated == {k \in KeysOf(entries) :
                            Len(ValuesOf(entries, k, null)) > 1}
        IN IF policy = ResultErr /\ repeated # {}
             THEN qm_out[1] = "Err"
             ELSE /\ qm_out[1] = "Ok"
                  /\ DOMAIN qm_out[2] = KeysOf(entries)
                  /\ \A k \in KeysOf(entries) :
                        LET vals == ValuesOf(entries, k, null) IN
                        qm_out[2][k] =
                            IF Len(vals) = 1 THEN vals[1]
                            ELSE IF policy = KeepFirst THEN vals[1]
                            ELSE IF policy = KeepLast THEN vals[Len(vals)]
                            ELSE Join(vals, policy[2])

\* A key three times, its last value differing from the first, decoded
\* under KeepLast.
C17_Witness ==
    /\ qm_in.dup_policy = KeepLast
    /\ qm_in.null_replacement = <<"n">>
    /\ qm_in.decoded_queries =
           << <<"id", Some(<<"1">>)>>, <<"id", Some(<<"2">>)>>, <<"id", None>> >>
    /\ qm_out = <<"Ok", [x \in {"id"} |-> <<"n">>]>>

\* ---------------- properties
SentValues(t) == [k \in 1..nsent[t] |-> ValueOf(t, k)]
AllSent == UNION {Range(SentValues(t)) : t \in Producers}
ByThread(s, t) == SelectSeq(s, LAMBDA v : v[1] = t)
IsPrefix(a, b) == Len(a) <= Len(b) /\ a = SubSeq(b, 1, Len(a))

\* The step is a return of recv.
Returned == rpc \in {"r_start", "r_loop"} /\ rpc' = "idle"
InRecv == rpc \in {"r_start", "r_loop", "r_wait", "r_woken"}

\* Every Sender handle ever made has finished its drop.
AllSendersDestroyed ==
    /\ \A h \in Handles : hstate[h] # "live"
    /\ \A t \in Producers : pc[t] = "idle"

ClosedEmpty == senders_count = 0 /\ quque = <<>> /\ swap_buffer = <<>>

\* C1: once every Sender is destroyed and recv has returned None, the
\* Receiver has been handed every sent value exactly once (none lost,
\* duplicated or invented), each producer's values in its send order.
C1_NoLossUnderConcurrency ==
    (AllSendersDestroyed /\ lastRet[1] = "None") =>
        /\ Range(received) = AllSent
        /\ Len(received) = Cardinality(AllSent)
        /\ \A t \in Producers : ByThread(received, t) = SentValues(t)

C1_Witness ==
    /\ AllSendersDestroyed /\ lastRet[1] = "None"
    /\ nsent["p1"] >= 2 /\ nsent["p2"] >= 1

\* Only the Sender that channel() returned has ever existed.
SingleSender == \A h \in Handles : h # 1 => hstate[h] = "unborn"

\* C2: the values recv returns are in send order: those of one thread
\* (a Sender is used by the one thread that holds it, so the sends on a
\* Sender are among its thread's sends) are a prefix of what it sent, and
\* with a single Sender the k-th value returned is the k-th value sent.
C2_FifoPerSender ==
    /\ \A t \in Producers : IsPrefix(ByThread(received, t), SentValues(t))
    /\ SingleSender => IsPrefix(received, SentValues("p1"))

C2_Witness ==
    /\ SingleSender
    /\ Len(received) >= 2 /\ quque # <<>>

\* C3: with no Sender left and the queue and the local buffer empty, the
\* state stays so; no recv or next enters the wait, every one that returns
\* returns None, and nothing is returned in Some any more.
C3_ClosedEmptyIsTerminal ==
    [][ClosedEmpty =>
         /\ ClosedEmpty'
         /\ received' = received
         /\ (rpc' = "r_wait" => rpc = "r_wait")
         /\ (Returned => lastRet'[1] = "None")]_vars

C3_Witness ==
    /\ ClosedEmpty
    /\ prevRet[1] = "None" /\ lastRet[1] = "None"
    /\ received # <<>>

\* C4: recv returns None only with senders_count = 0 and the shared queue
\* and the local buffer empty, and then every value sent has already been
\* returned.
C4_NoneOnlyWhenDrained ==
    [][(Returned /\ lastRet'[1] = "None") =>
         /\ senders_count = 0
         /\ quque = <<>>
         /\ swap_buffer = <<>>
         /\ AllSent = Range(pushed)
         /\ Range(pushed) \subseteq Range(received)]_vars

C4_Witness ==
    /\ lastRet[1] = "None" /\ prevRet[1] = "Some"
    /\ Len(received) >= 2

\* Sender handles: h counts from the increment of the clone that makes it
\* to the decrement of its drop.
PastDecrement(h) ==
    \E t \in Producers :
        cur[t] = h /\ pc[t] \in {"d_check", "d_unlock", "d_notify"}
NotYetDestroyed == {h \in Handles : hstate[h] = "live" /\ ~PastDecrement(h)}
CountedClones == {t \in Producers : pc[t] \in {"c_unlock", "c_ret"}}

\* C5: senders_count equals the number of Sender handles not yet
\* destroyed, is never below 0, and is 0 only when no Sender is left.
C5_CountIsLiveHandles ==
    /\ senders_count =
           Cardinality(NotYetDestroyed) + Cardinality(CountedClones)
    /\ senders_count >= 0
    /\ senders_count = 0 =>
           \A t \in Producers : \A h \in Handles :
               Owns(t, h) => PastDecrement(h)

C5_Witness ==
    /\ senders_count = 1
    /\ hstate[1] = "dead" /\ hstate[2] = "live"
    /\ \A t \in Producers : pc[t] = "idle"

\* C6: over the life of the channel at most one drop decides it is the
\* last and notifies; a drop decides so exactly when its own decrement
\* left senders_count at 0 (read before it releases the mutex); and once
\* every Sender is destroyed exactly one notify has been issued.
C6_ClosureSignalledOnce ==
    /\ closeNotifies
         + Cardinality({t \in Producers : i_am_the_last[t]}) <= 1
    /\ \A t \in Producers :
           /\ pc[t] = "d_unlock" => (i_am_the_last[t] <=> senders_count = 0)
           /\ i_am_the_last[t] => senders_count = 0
    /\ closeNotifies = 1 => senders_count = 0
    /\ AllSendersDestroyed => closeNotifies = 1

C6_Witness ==
    /\ pc["p1"] = "d_notify" /\ pc["p2"] = "d_notify"
    /\ i_am_the_last["p1"] # i_am_the_last["p2"]

\* C7: a Receiver waiting in recv after every Sender was destroyed with
\* nothing left to deliver eventually returns None.
C7_CloseWakesReceiver ==
    (rpc = "r_wait" /\ senders_count = 0 /\ quque = <<>>)
        ~> (rpc = "idle" /\ lastRet[1] = "None")

C7_Witness ==
    /\ rpc = "idle" /\ lastRet[1] = "None"
    /\ wokenBy = "drop" /\ pushed = <<>>

\* C8: a recv in progress while the shared queue holds a value eventually
\* returns Some.
C8_SendWakesReceiver ==
    (InRecv /\ quque # <<>>) ~> (rpc = "idle" /\ lastRet[1] = "Some")

C8_Witness ==
    /\ rpc = "idle" /\ lastRet[1] = "Some"
    /\ wokenBy = "send"

\* C9: every recv returns what the reference Receiver (one pop_front per
\* recv, no swap_buffer) returns for the same call, and while the Receiver
\* exists both have the same number of values left to return.
C9_SwapBufferTransparent ==
    /\ ref_out = lastRet
    /\ rpc # "gone" => Len(ref_queue) = Len(swap_buffer) + Len(quque)

C9_Witness ==
    /\ lastRet[1] = "Some"
    /\ Len(received) >= 2
    /\ swap_buffer # <<>>

\* C10: the Receiver enters the wait only with the local buffer and the
\* shared queue empty and senders_count >= 1; a producer inside send, clone
\* or drop can always take its next step.
C10_OnlyRecvBlocks ==
    /\ [][(rpc' = "r_wait" /\ rpc # "r_wait") =>
            /\ swap_buffer = <<>>
            /\ quque = <<>>
            /\ senders_count >= 1]_vars
    /\ [](\A t \in Producers : pc[t] # "idle" => ENABLED ProducerStep(t))

C10_Witness ==
    /\ rpc = "r_wait"
    /\ received # <<>>
    /\ \E t \in Producers : pc[t] \in {"s_unlock", "d_check", "c_unlock"}

\* C11: send has no failing outcome in any state, Receiver gone or not:
\* each of its steps can be taken, the push appends the value at the back
\* of the shared queue, and no step of send changes senders_count.
SendStep(t) == SendPush(t) \/ SendUnlock(t) \/ SendNotify(t)
InSend(t) == pc[t] \in {"s_push", "s_unlock", "s_notify"}

C11_SendNeverFails ==
    /\ [](\A t \in Producers : InSend(t) => ENABLED SendStep(t))
    /\ [][\A t \in Producers :
            (InSend(t) /\ pc'[t] # pc[t]) =>
                /\ senders_count' = senders_count
                /\ pc[t] = "s_push" =>
                       quque' = Append(quque, ValueOf(t, nsent[t]))
                /\ pc[t] # "s_push" => quque' = quque
                /\ pc[t] = "s_notify" => pc'[t] = "idle"]_vars

C11_Witness ==
    /\ rpc = "gone" /\ lastRet[1] = "nil"
    /\ Len(quque) >= 2
    /\ \E t \in Producers : pc[t] = "s_notify"

\* The threads that are between a lock of the mutex and its release.
InCritical(t) ==
    pc[t] \in {"s_push", "s_unlock", "c_inc", "c_unlock",
               "d_dec", "d_check", "d_unlock"}
Holders == {t \in Producers : InCritical(t)}
               \cup (IF rpc = "r_loop" THEN {"rx"} ELSE {})

\* The step drops the last handle of the channel: Shared is freed, the
\* mutex and the queue with it, by the only thread that can reach them.
SharedFreed ==
    /\ rpc' = "gone" /\ LiveSenders' = {}
    /\ (rpc # "gone" \/ LiveSenders # {})
    /\ mutex = "none"
    /\ quque' = <<>> /\ senders_count' = senders_count

\* C12: at most one thread is inside a critical section and it is the one
\* the mutex records; every step of send, clone, drop and recv that changes
\* the shared queue or senders_count is a step of that thread (the steps
\* that read them are taken from critical-section statements), the one
\* other change being the freeing of Shared with its last handle;
\* swap_buffer changes only in steps of the Receiver.
C12_MutexDiscipline ==
    /\ [](/\ Cardinality(Holders) <= 1
          /\ Holders = (IF mutex = "none" THEN {} ELSE {mutex}))
    /\ [][(quque' # quque \/ senders_count' # senders_count) =>
            \/ SharedFreed
            \/ /\ mutex # "none"
               /\ IF mutex = "rx" THEN rpc' # rpc
                                  ELSE pc'[mutex] # pc[mutex]]_vars
    /\ [][swap_buffer' # swap_buffer =>
            (rpc' # rpc /\ pc' = pc)]_vars

C12_Witness ==
    /\ mutex = "p2" /\ pc["p2"] = "s_unlock"
    /\ pc["p1"] = "s_notify"
    /\ rpc = "r_start" /\ swap_buffer # <<>>

\* C13: a thread that is at the notify_one of send or of drop does not
\* hold the mutex.
C13_NotifyAfterRelease ==
    \A t \in Producers : pc[t] \in {"s_notify", "d_notify"} => mutex # t

C13_Witness ==
    \E t \in Producers :
        /\ pc[t] = "s_notify"
        /\ mutex \in (Producers \ {t}) \cup {"rx"}
        /\ \E u \in Producers \ {t} : pc[u] = "d_notify"

\* C18 as stated: in every reachable state the values returned so far,
\* then the local buffer, then the shared queue, are the values pushed, in
\* the order of the push critical sections.
C18_InEveryState ==
    received \o swap_buffer \o quque = pushed

\* C18 amended: in every reachable state in which the Receiver exists, the
\* values returned so far, then the local buffer, then the shared queue,
\* are the values pushed, in the order of the push critical sections; once
\* the Receiver is dropped its local buffer is destroyed, and what was
\* returned stays a prefix of the pushes.
C18_CriticalSectionOrder ==
    /\ rpc # "gone" => received \o swap_buffer \o quque = pushed
    /\ IsPrefix(received, pushed)

C18_Witness ==
    /\ rpc # "gone"
    /\ received # <<>> /\ swap_buffer # <<>> /\ quque # <<>>
    /\ \E i, j \in 1..Len(pushed) : i < j /\ pushed[i][1] # pushed[j][1]
    /\ pushed[1][1] = "p2"

\* C19: recv reaches the match (and so the swap) only with an empty
\* swap_buffer; a recv that took the mutex and returns Some leaves the
\* shared queue empty and swap_buffer holding exactly what followed the
\* returned element.
C19_SwapMovesWholeQueue ==
    /\ [](rpc = "r_loop" => swap_buffer = <<>>)
    /\ [][(rpc = "r_loop" /\ Returned /\ lastRet'[1] = "Some") =>
            /\ lastRet'[2] = Head(quque)
            /\ swap_buffer' = Tail(quque)
            /\ quque' = <<>>]_vars

C19_Witness ==
    /\ rpc = "idle" /\ lastRet[1] = "Some"
    /\ Len(swap_buffer) >= 2 /\ quque = <<>>
    /\ Len(received) = 1

\* C20: with a non-empty swap_buffer, recv can return at once whoever
\* holds the mutex, and its step returns the front of swap_buffer and
\* leaves the mutex, the shared queue and senders_count as they are.
C20_LocalPopTakesNoLock ==
    /\ []((rpc = "r_start" /\ swap_buffer # <<>>) => ENABLED RecvLocal)
    /\ [][(rpc = "r_start" /\ swap_buffer # <<>> /\ rpc' # rpc) =>
            /\ rpc' = "idle"
            /\ lastRet' = <<"Some", Head(swap_buffer)>>
            /\ swap_buffer' = Tail(swap_buffer)
            /\ UNCHANGED <<quque, senders_count, mutex>>]_vars

C20_Witness ==
    /\ rpc = "r_start" /\ swap_buffer # <<>>
    /\ Len(received) >= 2
    /\ mutex \in Producers

\* C21: after a spurious return of the wait, recv takes the mutex again
\* and re-checks: while nothing was sent and a Sender is left it goes back
\* to waiting without returning, a Some it returns carries the front of the
\* shared queue, a value that was sent and not yet returned, and a None is
\* returned only with senders_count = 0.
C21_SpuriousWakeRechecks ==
    [][(wokenBy = "spurious" /\ rpc' # rpc) =>
          /\ rpc = "r_woken" =>
                 /\ mutex = "none" /\ mutex' = "rx"
                 /\ rpc' = "r_loop"
                 /\ lastRet' = lastRet /\ received' = received
          /\ (rpc = "r_loop" /\ quque = <<>> /\ senders_count > 0) =>
                 /\ mutex = "rx" /\ mutex' = "none"
                 /\ rpc' = "r_wait"
                 /\ lastRet' = lastRet /\ received' = received
          /\ (rpc = "r_loop" /\ Returned /\ lastRet'[1] = "Some") =>
                 /\ quque # <<>> /\ lastRet'[2] = Head(quque)
                 /\ lastRet'[2] \in Range(pushed) \ Range(received)
          /\ (Returned /\ lastRet'[1] = "None") => senders_count = 0]_vars

\* Woken spuriously after earlier traffic, the Receiver holds the mutex
\* again and finds the queue empty with a Sender left.
C21_Witness ==
    /\ wokenBy = "spurious"
    /\ rpc = "r_loop" /\ mutex = "rx"
    /\ quque = <<>> /\ senders_count > 0
    /\ received # <<>>


\* C22: senders_count = 0 is absorbing: no thread then owns a Sender to
\* clone or send with and none is inside clone or send, so no step ever
\* changes senders_count again and nothing is pushed on the shared queue
\* any more (it can only be drained).
C22_ZeroIsAbsorbing ==
    /\ [](senders_count = 0 =>
            /\ \A t \in Producers :
                   pc[t] \in {"idle", "d_check", "d_unlock", "d_notify"}
            /\ \A t \in Producers : \A h \in Handles :
                   ~(pc[t] = "idle" /\ Owns(t, h)))
    /\ [][senders_count = 0 =>
            /\ senders_count' = 0
            /\ pushed' = pushed
            /\ Len(quque') <= Len(quque)]_vars

\* The original Sender and a clone are both destroyed with values still
\* queued, and the Receiver goes on draining them.
C22_Witness ==
    /\ senders_count = 0
    /\ AllSendersDestroyed
    /\ hstate[2] # "unborn"
    /\ quque # <<>>
    /\ lastRet[1] = "Some"


\* ---------------- registration order
StrictPrefix(p, q) == Len(p) < Len(q) /\ p = SubSeq(q, 1, Len(p))

\* The registered routes that are strict prefixes of route r.
ShorterRoutes(r) == {p \in DOMAIN routes : StrictPrefix(p, r)}

\* Every node of the table is the root or lies on a registered route, as
\* in every table that register calls have built.
OnRegisteredRoutes ==
    \A n \in DOMAIN rt :
        n = <<>> \/ \E q \in DOMAIN routes : n = q \/ StrictPrefix(n, q)

\* C23: registration is order-sensitive.  A call that names a strict prefix
\* of a registered longer route panics with the double registration error
\* (the empty route with its own double registration message).  A register
\* call for a fresh route that extends a registered shorter route succeeds,
\* the route then yields its entity, and every unregistered level between
\* the two exists and falls back to the shorter route's entity.
C23_RegistrationOrderMatters ==
    [][rt_call'.n # rt_call.n =>
          LET c == rt_call'
              rs == Range(CallRoutes(c))
              r == c.route
          IN /\ (\E x \in rs : \E q \in DOMAIN routes : StrictPrefix(x, q))
                    => rt_panic' = IF <<>> \in rs THEN EmptyReg ELSE DoubleReg
             /\ ( /\ c.api = "register"
                  /\ ShorterRoutes(r) # {}
                  /\ r \notin DOMAIN routes
                  /\ ~\E q \in DOMAIN routes : StrictPrefix(r, q)
                  /\ OnRegisteredRoutes )
                    => LET p == CHOOSE x \in ShorterRoutes(r) :
                                    \A y \in ShorterRoutes(r) :
                                        Len(y) <= Len(x)
                       IN /\ rt_panic' = "none"
                          /\ Lookup(rt', r)[2].val = c.entity
                          /\ Lookup(rt', r)[2].keys_used = Len(r)
                          /\ \A n \in Len(p)..(Len(r) - 1) :
                                LET res == Lookup(rt', SubSeq(r, 1, n))[2]
                                IN res.val = routes[p] /\ res.keys_used = n
         ]_vars

\* The shorter route was registered first and the longer one second: the
\* second call returned, and the level between them answers with the
\* first call's entity.
C23_Witness ==
    /\ rt_call = [n |-> 2, api |-> "register", entity |-> Entity(2),
                  route |-> <<"b", "a", "b">>]
    /\ rt_panic = "none"
    /\ DOMAIN routes = {<<"b">>, <<"b", "a", "b">>}
    /\ routes[<<"b">>] = Entity(1)
    /\ Lookup(rt, <<"b", "a">>)[2] =
           [val |-> Entity(1), depth |-> 2, keys_used |-> 2,
            keep_going |-> <<"b", "a">>]


====
